---- MODULE Spec2Model ----
(* Model of performance/runner/src/calculate.rs: the Version text encoding,  *)
(* Sample::from_measurement, calculate_regressions and regressions.          *)
(* An f64 is modelled by an integer and stands for the f64 of that very      *)
(* value (4 is 4.0): on integer-valued f64 of this size every product and    *)
(* sum is exact, so the integer operations are the f64 operations. Values    *)
(* with a fractional part, on which f64 rounds, and NaN are outside the      *)
(* model's inputs.                                                           *)
(* Text is a sequence of one-character strings.                              *)
EXTENDS Integers, Sequences, FiniteSets, TLC

VARIABLES
    pc,          \* position of the running operation
    version,     \* Version handed to Serialize (NoValue when the text is given)
    text,        \* text handed to Deserialize
    borrowed,    \* whether the deserializer can lend the text as a &'de str
    parsed,      \* result of Deserialize
    call,        \* arguments of Sample::from_measurement
    sample,      \* result of Sample::from_measurement
    baselines,   \* regressions: the loaded Vec<Baseline>
    samples,     \* the Vec<Sample> (argument of calculate_regressions)
    baseline,    \* the Baseline handed to calculate_regressions
    sigma,       \* the sigma handed to calculate_regressions
    result,      \* what calculate_regressions / regressions returned
    trace        \* regressions: the steps run so far, in order

vars == <<pc, version, text, borrowed, parsed, call, sample,
          baselines, samples, baseline, sigma, result, trace>>

versionVars == <<version, text, borrowed, parsed>>
sampleVars == <<call, sample>>
calcVars == <<baselines, samples, baseline, sigma, result, trace>>

NoValue == [kind |-> "None"]

----------------------------------------------------------------------------
(* Bounds of the model.                                                      *)

MaxComp == 11          \* version components -MaxComp..MaxComp (plus the i32 limits)
MaxTextLen == 6        \* length of the arbitrary texts handed to Deserialize
MaxTimes == 3          \* length of Measurement.times
MaxSamples == 2        \* length of the samples slice
MaxMetrics == 2        \* length of Baseline.metrics
MaxBaselines == 2      \* number of loaded baselines
MaxVer == 1            \* version components 0..MaxVer of the loaded baselines

----------------------------------------------------------------------------
(* Version: i32 components, derived Ord, "major.minor.patch" text.           *)

MaxI32 == 2147483647
MinI32 == -MaxI32 - 1

Version(major, minor, patch) ==
    [major |-> major, minor |-> minor, patch |-> patch]

\* #[derive(Ord, PartialOrd)]: lexicographic on the fields in declaration order.
VersionLt(a, b) ==
    \/ a.major < b.major
    \/ a.major = b.major /\ a.minor < b.minor
    \/ a.major = b.major /\ a.minor = b.minor /\ a.patch < b.patch

VersionGe(a, b) == ~VersionLt(a, b)

DigitChars == <<"0", "1", "2", "3", "4", "5", "6", "7", "8", "9">>

\* The decimal digits of n >= 0, most significant first ("0" for 0).
RECURSIVE fmt_digits(_)
fmt_digits(n) ==
    IF n < 10 THEN <<DigitChars[n + 1]>>
    ELSE fmt_digits(n \div 10) \o <<DigitChars[(n % 10) + 1]>>

\* Display for i32 ("{}"): a '-' sign and the digits of the magnitude. The
\* magnitude of a negative n is taken digit by digit, so that MinI32 (whose
\* magnitude is no i32) is printed as Rust prints it.
fmt_i32(n) ==
    IF n >= 0 THEN fmt_digits(n)
    ELSE LET last == (10 - (n % 10)) % 10
             rest == -((n + last) \div 10)
         IN  <<"-">> \o (IF rest = 0 THEN <<DigitChars[last + 1]>>
                         ELSE fmt_digits(rest) \o <<DigitChars[last + 1]>>)

\* format!("{}.{}.{}", self.major, self.minor, self.patch)
to_text(v) ==
    fmt_i32(v.major) \o <<".">> \o fmt_i32(v.minor) \o <<".">> \o fmt_i32(v.patch)

\* s.split("."): the pieces between the dots; "" gives one empty piece.
RECURSIVE split(_)
split(s) ==
    IF \A i \in 1..Len(s) : s[i] # "."
    THEN <<s>>
    ELSE LET i == CHOOSE k \in 1..Len(s) :
                      s[k] = "." /\ \A j \in 1..(k - 1) : s[j] # "."
         IN  <<SubSeq(s, 1, i - 1)>> \o split(SubSeq(s, i + 1, Len(s)))

\* char::to_digit(10); -1 stands for None.
to_digit(c) ==
    IF \E d \in 0..9 : DigitChars[d + 1] = c
    THEN CHOOSE d \in 0..9 : DigitChars[d + 1] = c
    ELSE -1

ParseOk(n) == [ok |-> TRUE, val |-> n, err |-> ""]
ParseErr(e) == [ok |-> FALSE, val |-> 0, err |-> e]

\* The digit loop of i32::from_str: checked_mul by 10, then checked_add of the
\* digit (checked_sub after a '-' sign).
RECURSIVE parse_digits(_, _, _)
parse_digits(s, acc, neg) ==
    IF s = <<>> THEN ParseOk(acc)
    ELSE LET d == to_digit(Head(s)) IN
         IF d < 0 THEN ParseErr("InvalidDigit")
         ELSE IF ~neg
              THEN IF acc > MaxI32 \div 10 THEN ParseErr("PosOverflow")
                   ELSE IF acc * 10 > MaxI32 - d THEN ParseErr("PosOverflow")
                   ELSE parse_digits(Tail(s), acc * 10 + d, neg)
              ELSE IF acc < -(MaxI32 \div 10) THEN ParseErr("NegOverflow")
                   ELSE IF acc * 10 < MinI32 + d THEN ParseErr("NegOverflow")
                   ELSE parse_digits(Tail(s), acc * 10 - d, neg)

\* x.parse::<i32>(): an optional '+' or '-' and at least one decimal digit.
parse_i32(s) ==
    IF s = <<>> THEN ParseErr("Empty")
    ELSE IF s = <<"+">> \/ s = <<"-">> THEN ParseErr("InvalidDigit")
    ELSE IF Head(s) = "+" THEN parse_digits(Tail(s), 0, FALSE)
    ELSE IF Head(s) = "-" THEN parse_digits(Tail(s), 0, TRUE)
    ELSE parse_digits(s, 0, FALSE)

DeOk(v) == [kind |-> "Ok", version |-> v, error |-> ""]
DeErr(e) == [kind |-> "Err", version |-> NoValue, error |-> e]

\* serde's error for a visitor that takes only visit_borrowed_str.
BorrowError == "invalid type: string, expected a borrowed string"

FormatError ==
    "Must be in the format \"major.minor.patch\" where each component is an integer."

\* A mutant of from_text that takes the first three components of three or more.
from_text_prefix(s, lend) ==
    LET parts == split(s)
        ints  == [i \in 1..Len(parts) |-> parse_i32(parts[i])]
    IN  IF ~lend THEN DeErr(BorrowError)
        ELSE IF \E i \in 1..Len(ints) : ~ints[i].ok
        THEN DeErr("ParseIntError")
        ELSE IF Len(ints) >= 3
             THEN DeOk(Version(ints[1].val, ints[2].val, ints[3].val))
             ELSE DeErr(FormatError)

\* Deserialize for Version: ask the deserializer for a borrowed &str (an
\* error when it cannot lend one: the text was unescaped into a scratch
\* buffer, or comes from a reader or a Value), split on ".", parse every piece
\* as i32 (the first failure is the error), then require exactly three.
from_text(s, lend) ==
    LET parts == split(s)
        ints  == [i \in 1..Len(parts) |-> parse_i32(parts[i])]
    IN  IF ~lend THEN DeErr(BorrowError)
        ELSE IF \E i \in 1..Len(ints) : ~ints[i].ok
        THEN DeErr("ParseIntError")
        ELSE IF Len(ints) = 3
             THEN DeOk(Version(ints[1].val, ints[2].val, ints[3].val))
             ELSE DeErr(FormatError)

----------------------------------------------------------------------------
(* Specification of the Version text encoding: a Version is serialized and   *)
(* the text deserialized, or an arbitrary text is deserialized.              *)

Components == (-MaxComp..MaxComp) \cup {MinI32, MinI32 + 1, MaxI32}

Versions == {Version(a, b, c) : a \in Components, b \in Components, c \in Components}

Alphabet == {"7", "-", "+", ".", "x"}

BoundedTexts == UNION {[1..n -> Alphabet] : n \in 0..MaxTextLen}

\* Texts beyond MaxTextLen: four components, leading zeros, and components
\* just outside and just inside the i32 range.
EdgeTexts ==
    { <<"7", ".", "7", ".", "7", ".", "7">>,
      <<"0", "0", "7", ".", "-", "0", "7", ".", "+", "0">>,
      fmt_digits(MaxI32) \o <<".", "0", ".", "0">>,
      SubSeq(fmt_digits(MaxI32), 1, 9) \o <<"8", ".", "0", ".", "0">>,
      <<"-">> \o SubSeq(fmt_digits(MaxI32), 1, 9) \o <<"9", ".", "0", ".", "0">>,
      fmt_digits(MaxI32) \o <<"0", ".", "0", ".", "0">> }

Texts == BoundedTexts \cup EdgeTexts

InitVersion ==
    /\ \/ pc = "version" /\ version \in Versions /\ text = <<>>
       \/ pc = "text" /\ version = NoValue /\ text \in Texts
    /\ borrowed \in BOOLEAN
    /\ parsed = NoValue
    /\ call = NoValue /\ sample = NoValue
    /\ baselines = <<>> /\ samples = <<>> /\ baseline = NoValue
    /\ sigma = 0 /\ result = NoValue /\ trace = <<>>

\* impl Serialize for Version
Serialize ==
    /\ pc = "version"
    /\ text' = to_text(version)
    /\ pc' = "text"
    /\ UNCHANGED <<version, borrowed, parsed, sampleVars, calcVars>>

\* impl Deserialize for Version
Deserialize ==
    /\ pc = "text"
    /\ parsed' = from_text(text, borrowed)
    /\ pc' = "parsed"
    /\ UNCHANGED <<version, text, borrowed, sampleVars, calcVars>>

NextVersion == Serialize \/ Deserialize

SpecVersion == InitVersion /\ [][NextVersion]_vars

\* What the claims call a text of three integer components, stated on the
\* text itself: exactly two dots, and between them an optional sign followed
\* by at least one decimal digit.
IsDigitChar(c) == c \in {DigitChars[i] : i \in 1..10}

IsIntegerText(c) ==
    /\ Len(c) >= 1
    /\ LET body == IF c[1] \in {"+", "-"} THEN Tail(c) ELSE c
       IN  Len(body) >= 1 /\ \A i \in 1..Len(body) : IsDigitChar(body[i])

DotPositions(s) == {i \in 1..Len(s) : s[i] = "."}

ThreeIntegerComponents(s) ==
    /\ Cardinality(DotPositions(s)) = 2
    /\ LET i == CHOOSE k \in DotPositions(s) : \A j \in DotPositions(s) : k <= j
           j == CHOOSE k \in DotPositions(s) : \A l \in DotPositions(s) : l <= k
       IN  /\ IsIntegerText(SubSeq(s, 1, i - 1))
           /\ IsIntegerText(SubSeq(s, i + 1, j - 1))
           /\ IsIntegerText(SubSeq(s, j + 1, Len(s)))

\* C7: deserializing the text produced by serializing a Version, negative
\* components included, succeeds and gives back the identical triple.
C7_RoundTrip ==
    (pc = "parsed" /\ version # NoValue) => parsed = DeOk(version)

\* C8: deserializing a text that is not exactly three dot-separated integer
\* components fails with an error and returns no Version; a success comes
\* only from exactly three integer components.
C8_RejectsMalformed ==
    pc = "parsed" =>
        /\ ~ThreeIntegerComponents(text) =>
               parsed.kind = "Err" /\ parsed.version = NoValue
        /\ parsed.kind = "Ok" => ThreeIntegerComponents(text)

C8_Witness ==
    /\ pc = "parsed" /\ version = NoValue /\ borrowed
    /\ text = <<"7", ".", "7", ".", "7", ".", "7">>
    /\ parsed.kind = "Err"

----------------------------------------------------------------------------
(* Sample::from_measurement.                                                 *)

Projects == {"p", "q"}
Metrics == {"m", "n"}
Timestamps == {1, 2}

Sample(project, metric, value, ts) ==
    [project |-> project, metric |-> metric, value |-> value, ts |-> ts]

Measurement(mean, stddev, times) ==
    [mean |-> mean, stddev |-> stddev, times |-> times]

Returned(v) == [kind |-> "Returned", value |-> v, msg |-> ""]
Panic(msg) == [kind |-> "Panic", value |-> NoValue, msg |-> msg]

\* match &measurement.times[..] { [] => panic!, [x] => Sample {..}, _ => panic! }
from_measurement(project, metric, ts, measurement) ==
    IF Len(measurement.times) = 0
    THEN Panic("found a sample with no measurement")
    ELSE IF Len(measurement.times) = 1
         THEN Returned(Sample(project, metric, measurement.times[1], ts))
         ELSE Panic("found a sample with too many measurements!")

Timings == {1, 2, 3}

TimesSeqs == UNION {[1..n -> Timings] : n \in 0..MaxTimes}

InitSample ==
    /\ pc = "measurement"
    /\ call \in [project : Projects, metric : Metrics, ts : Timestamps,
                 measurement : {Measurement(1, 0, t) : t \in TimesSeqs}]
    /\ sample = NoValue
    /\ version = NoValue /\ text = <<>> /\ borrowed = FALSE /\ parsed = NoValue
    /\ baselines = <<>> /\ samples = <<>> /\ baseline = NoValue
    /\ sigma = 0 /\ result = NoValue /\ trace = <<>>

FromMeasurement ==
    /\ pc = "measurement"
    /\ sample' = from_measurement(call.project, call.metric, call.ts, call.measurement)
    /\ pc' = IF sample'.kind = "Panic" THEN "aborted" ELSE "constructed"
    /\ UNCHANGED <<call, versionVars, calcVars>>

NextSample == FromMeasurement

SpecSample == InitSample /\ [][NextSample]_vars

\* C5: from_measurement succeeds exactly when times has length 1, with that
\* timing as the value and project, metric and ts from the arguments; every
\* other length ends in a MalformedMeasurementError returned as an error
\* result.
C5_MalformedIsErrorResult ==
    pc \in {"constructed", "aborted"} =>
        IF Len(call.measurement.times) = 1
        THEN sample = Returned(Sample(call.project, call.metric,
                                      call.measurement.times[1], call.ts))
        ELSE /\ pc = "constructed"
             /\ sample.kind = "Err"
             /\ sample.msg = "MalformedMeasurementError"

----------------------------------------------------------------------------
(* calculate_regressions.                                                    *)

BaselineMetric(project, metric, ts, measurement) ==
    [project |-> project, metric |-> metric, ts |-> ts, measurement |-> measurement]

Baseline(v, metrics) == [version |-> v, metrics |-> metrics]

Calculation(v, project, metric, regression, ts, sg, mean, stddev, threshold) ==
    [version |-> v, project |-> project, metric |-> metric,
     regression |-> regression, ts |-> ts, sigma |-> sg,
     mean |-> mean, stddev |-> stddev, threshold |-> threshold]

\* The (String, String) key of the HashMap.
Key(x) == <<x.project, x.metric>>

\* A mutant of hashmap_insert that keeps the value a key already has.
hashmap_insert_keep(map, k, v) ==
    [x \in (DOMAIN map) \cup {k} |-> IF x \in DOMAIN map THEN map[x] ELSE v]

\* HashMap::insert: the value of an occupied key is overwritten.
hashmap_insert(map, k, v) ==
    [x \in (DOMAIN map) \cup {k} |-> IF x = k THEN v ELSE map[x]]

\* samples.into_iter().map(|x| (key, (value, ts))).collect::<HashMap<..>>():
\* the pairs are inserted in the order of the slice.
RECURSIVE collect_samples(_, _)
collect_samples(smps, map) ==
    IF smps = <<>> THEN map
    ELSE collect_samples(Tail(smps),
             hashmap_insert(map, Key(Head(smps)),
                            <<Head(smps).value, Head(smps).ts>>))

EmptyMap == [x \in {} |-> <<0, 0>>]

\* model.mean + sigma * model.stddev
threshold_of(mean, sg, stddev) == mean + sg * stddev

\* A mutant of is_regression that also flags a value equal to the threshold.
is_regression_ge(value, threshold) == value >= threshold

\* *value > threshold
is_regression(value, threshold) == value > threshold

\* The closure of .map(|(value, ts)| ..): the Calculation of one matched metric.
calculation(v, metric, entry, sg) ==
    LET model == metric.measurement
        threshold == threshold_of(model.mean, sg, model.stddev)
    IN  Calculation(v, metric.project, metric.metric,
                    is_regression(entry[1], threshold), entry[2], sg,
                    model.mean, model.stddev, threshold)

\* baseline.metrics.into_iter().filter_map(|metric| m_samples.get(key).map(..))
RECURSIVE filter_map_metrics(_, _, _, _)
filter_map_metrics(metrics, m_samples, v, sg) ==
    IF metrics = <<>> THEN <<>>
    ELSE LET metric == Head(metrics)
             rest == filter_map_metrics(Tail(metrics), m_samples, v, sg)
         IN  IF Key(metric) \in DOMAIN m_samples
             THEN <<calculation(v, metric, m_samples[Key(metric)], sg)>> \o rest
             ELSE rest

\* A mutant of calculate_regressions that walks the samples and looks the
\* baseline metric up, so that the output follows the order of the samples.
RECURSIVE by_sample_order(_, _, _)
by_sample_order(smps, b, sg) ==
    IF smps = <<>> THEN <<>>
    ELSE LET hits == {i \in 1..Len(b.metrics) : Key(b.metrics[i]) = Key(Head(smps))}
             rest == by_sample_order(Tail(smps), b, sg)
         IN  IF hits = {} THEN rest
             ELSE LET i == CHOOSE k \in hits : \A l \in hits : k <= l
                  IN  <<calculation(b.version, b.metrics[i],
                                    <<Head(smps).value, Head(smps).ts>>, sg)>> \o rest

calculate_regressions_by_sample(smps, b, sg) == by_sample_order(smps, b, sg)

\* A mutant of calculate_regressions that keeps one baseline metric of each key
\* (the first).
calculate_regressions_unique(smps, b, sg) ==
    LET firsts == {i \in 1..Len(b.metrics) :
                      \A j \in 1..(i - 1) : Key(b.metrics[j]) # Key(b.metrics[i])}
        keep(m) == \E i \in firsts : b.metrics[i] = m
    IN  filter_map_metrics(SelectSeq(b.metrics, keep),
                           collect_samples(smps, EmptyMap), b.version, sg)

calculate_regressions(smps, b, sg) ==
    filter_map_metrics(b.metrics, collect_samples(smps, EmptyMap), b.version, sg)

----------------------------------------------------------------------------
(* Specification of calculate_regressions on bounded inputs.                 *)

Keys == {<<"p", "m">>, <<"p", "n">>, <<"q", "m">>}

SampleValues == {4, 5}

SampleSet == {Sample(k[1], k[2], val, t) :
                  k \in Keys, val \in SampleValues, t \in Timestamps}

Stddevs == {1, 2}

\* ts 0: no sample carries it. times is empty, as in a persisted baseline.
MetricSet == {BaselineMetric(k[1], k[2], 0, Measurement(1, sd, <<>>)) :
                  k \in Keys, sd \in Stddevs}

Sigmas == {1, 3}

SeqsUpTo(S, n) == UNION {[1..k -> S] : k \in 0..n}

InitCalc ==
    /\ pc = "call"
    /\ samples \in SeqsUpTo(SampleSet, MaxSamples)
    /\ baseline \in {Baseline(Version(9, 9, 9), ms) : ms \in SeqsUpTo(MetricSet, MaxMetrics)}
    /\ sigma \in Sigmas
    /\ result = NoValue
    /\ baselines = <<>> /\ trace = <<>>
    /\ version = NoValue /\ text = <<>> /\ borrowed = FALSE /\ parsed = NoValue
    /\ call = NoValue /\ sample = NoValue

CalculateRegressions ==
    /\ pc = "call"
    /\ result' = calculate_regressions(samples, baseline, sigma)
    /\ pc' = "calculated"
    /\ UNCHANGED <<baselines, samples, baseline, sigma, trace, versionVars, sampleVars>>

NextCalc == CalculateRegressions

SpecCalc == InitCalc /\ [][NextCalc]_vars

\* The indices of the samples and of the baseline metrics that carry a key.
SamplesOf(k) == {i \in 1..Len(samples) : <<samples[i].project, samples[i].metric>> = k}
MetricsOf(k) ==
    {i \in 1..Len(baseline.metrics) :
        <<baseline.metrics[i].project, baseline.metrics[i].metric>> = k}

\* The baseline metrics that have a sample of their key, in the baseline's order.
HasSample(m) == SamplesOf(<<m.project, m.metric>>) # {}
Matched == SelectSeq(baseline.metrics, HasSample)

LastOf(S) == CHOOSE i \in S : \A j \in S : j <= i

\* C1: every emitted Calculation has threshold = mean + sigma * stddev of its
\* baseline metric, and regression is true exactly when the matched sample's
\* value is strictly greater than the threshold (equal or below: false).
C1_ThresholdStrict ==
    pc = "calculated" =>
        /\ Len(result) = Len(Matched)
        /\ \A i \in 1..Len(result) :
              LET c == result[i]
                  m == Matched[i].measurement
              IN  /\ c.sigma = sigma /\ c.mean = m.mean /\ c.stddev = m.stddev
                  /\ c.threshold = m.mean + sigma * m.stddev
                  /\ \E j \in SamplesOf(<<c.project, c.metric>>) :
                        /\ c.regression = (samples[j].value > c.threshold)
                        /\ (samples[j].value <= c.threshold) => ~c.regression

\* A single sample whose value equals the threshold, and no regression.
C1_Witness ==
    /\ pc = "calculated"
    /\ Len(samples) = 1 /\ Len(result) = 1
    /\ samples[1].value = result[1].threshold
    /\ result[1].threshold = 4 /\ sigma = 3
    /\ ~result[1].regression

\* C2: the (project, metric) keys of the output are the keys of the baseline
\* metrics that have a sample of the same key, in the baseline's order; the
\* unmatched on either side yield nothing, and the order of the samples plays
\* no part.
C2_BaselineOrder ==
    pc = "calculated" =>
        /\ [i \in 1..Len(result) |-> <<result[i].project, result[i].metric>>]
             = [i \in 1..Len(Matched) |-> <<Matched[i].project, Matched[i].metric>>]
        /\ \A i \in 1..Len(result) : result[i].version = baseline.version

\* Two matched keys whose samples come in the opposite order.
C2_Witness ==
    /\ pc = "calculated"
    /\ Len(samples) = 2 /\ Len(baseline.metrics) = 2 /\ Len(result) = 2
    /\ <<samples[1].project, samples[1].metric>> = <<result[2].project, result[2].metric>>
    /\ <<samples[2].project, samples[2].metric>> = <<result[1].project, result[1].metric>>
    /\ <<result[1].project, result[1].metric>> # <<result[2].project, result[2].metric>>

\* C6: with several samples of one key, the Calculation of that key is
\* computed from the last of them: its regression flag from that sample's
\* value, its ts that sample's timestamp.
C6_LastSampleWins ==
    pc = "calculated" =>
        \A i \in 1..Len(result) :
            LET c == result[i]
                l == LastOf(SamplesOf(<<c.project, c.metric>>))
            IN  /\ c.ts = samples[l].ts
                /\ c.regression = (samples[l].value > c.threshold)

\* Two samples of one key that differ in value and ts and in the verdict they
\* give; the output carries the second.
C6_Witness ==
    /\ pc = "calculated"
    /\ Len(samples) = 2 /\ Len(result) = 1
    /\ <<samples[1].project, samples[1].metric>> = <<samples[2].project, samples[2].metric>>
    /\ samples[1].ts # samples[2].ts
    /\ samples[1].value > result[1].threshold
    /\ samples[2].value <= result[1].threshold
    /\ ~result[1].regression /\ result[1].ts = samples[2].ts

\* C9 as stated: the output holds at most one Calculation for each distinct
\* (project, metric) key, also when the baseline repeats a key.
C9_AtMostOnePerKey ==
    pc = "calculated" =>
        \A i, j \in 1..Len(result) :
            <<result[i].project, result[i].metric>> = <<result[j].project, result[j].metric>>
                => i = j

\* C9 amended: the output holds one Calculation for every baseline metric of
\* a key that has a sample, each with that metric's own mean and stddev.
C9_OnePerBaselineMetric ==
    pc = "calculated" =>
        /\ \A k \in Keys :
              Cardinality({i \in 1..Len(result) : <<result[i].project, result[i].metric>> = k})
                = IF SamplesOf(k) = {} THEN 0 ELSE Cardinality(MetricsOf(k))
        /\ \A i \in 1..Len(result) :
              /\ result[i].mean = Matched[i].measurement.mean
              /\ result[i].stddev = Matched[i].measurement.stddev

\* A baseline with two metrics of one key and different stddev, and a sample
\* of that key: two Calculations of that key with different thresholds.
C9_Witness ==
    /\ pc = "calculated"
    /\ Len(baseline.metrics) = 2 /\ Len(result) = 2
    /\ <<result[1].project, result[1].metric>> = <<result[2].project, result[2].metric>>
    /\ baseline.metrics[1].measurement.stddev # baseline.metrics[2].measurement.stddev
    /\ result[1].threshold # result[2].threshold

----------------------------------------------------------------------------
(* regressions: the baseline loader, the sampler, the selection of the       *)
(* baseline and the calculation, one step each.                              *)

Ok(calcs) == [kind |-> "Ok", calculations |-> calcs, error |-> ""]
Err(e) == [kind |-> "Err", calculations |-> <<>>, error |-> e]
Abort(m) == [kind |-> "Panic", calculations |-> <<>>, error |-> m]

Step(name, outcome) == [step |-> name, outcome |-> outcome]

\* What measure::from_json_files and measure::take_samples may fail with.
LoaderErrors == {"BadFileContentsErr", "CouldNotReadErr"}
SamplerErrors == {"HyperfineNonZeroExitCode"}

LoadedVersions ==
    {Version(a, b, c) : a \in 0..MaxVer, b \in 0..MaxVer, c \in 0..MaxVer}

LoadedMetrics ==
    { <<BaselineMetric("p", "m", 0, Measurement(1, 1, <<>>))>>,
      <<BaselineMetric("p", "m", 0, Measurement(1, 2, <<>>))>> }

LoadedBaselines ==
    SeqsUpTo({Baseline(v, ms) : v \in LoadedVersions, ms \in LoadedMetrics},
             MaxBaselines)

TakenSamples ==
    { <<>>, <<Sample("p", "m", 4, 1)>>, <<Sample("p", "m", 5, 2)>> }

\* A mutant of fold_step that keeps the later of two baselines of one version.
fold_step_gt(max, next) ==
    IF VersionLt(next.version, max.version) THEN max ELSE next

\* |max, next| if max.version >= next.version { max } else { next }
fold_step(max, next) ==
    IF VersionGe(max.version, next.version) THEN max ELSE next

\* Iterator::fold
RECURSIVE fold(_, _)
fold(bs, max) ==
    IF bs = <<>> THEN max ELSE fold(Tail(bs), fold_step(max, Head(bs)))

\* match &baselines[..] { [] => panic!, [x, ..] => baselines.fold(x, ..) }
select_baseline(bs) ==
    IF bs = <<>> THEN Abort("no baselines found in dir")
    ELSE Returned(fold(bs, bs[1]))

Init ==
    /\ pc = "start"
    /\ baselines = <<>> /\ samples = <<>> /\ baseline = NoValue
    /\ sigma = 0 /\ result = NoValue /\ trace = <<>>
    /\ version = NoValue /\ text = <<>> /\ borrowed = FALSE /\ parsed = NoValue
    /\ call = NoValue /\ sample = NoValue

\* measure::from_json_files::<Baseline>(..)? : the values of the loaded map, or
\* the loader's error returned at once.
LoadBaselines ==
    /\ pc = "start"
    /\ \/ \E bs \in LoadedBaselines :
             /\ baselines' = bs
             /\ pc' = "loaded"
             /\ trace' = Append(trace, Step("from_json_files", "Ok"))
             /\ UNCHANGED result
       \/ \E e \in LoaderErrors :
             /\ result' = Err(e)
             /\ pc' = "returned"
             /\ trace' = Append(trace, Step("from_json_files", "Err"))
             /\ UNCHANGED baselines
    /\ UNCHANGED <<samples, baseline, sigma, versionVars, sampleVars>>

\* A mutant of TakeSamples that goes on with no samples when the sampler fails.
TakeSamplesSwallow ==
    /\ pc = "loaded"
    /\ \/ \E ss \in TakenSamples :
             /\ samples' = ss
             /\ trace' = Append(trace, Step("take_samples", "Ok"))
       \/ \E e \in SamplerErrors :
             /\ samples' = <<>>
             /\ trace' = Append(trace, Step("take_samples", "Err"))
    /\ pc' = "sampled"
    /\ UNCHANGED <<baselines, baseline, sigma, result, versionVars, sampleVars>>

\* measure::take_samples(projects_dir, tmp_dir)?
TakeSamples ==
    /\ pc = "loaded"
    /\ \/ \E ss \in TakenSamples :
             /\ samples' = ss
             /\ pc' = "sampled"
             /\ trace' = Append(trace, Step("take_samples", "Ok"))
             /\ UNCHANGED result
       \/ \E e \in SamplerErrors :
             /\ result' = Err(e)
             /\ pc' = "returned"
             /\ trace' = Append(trace, Step("take_samples", "Err"))
             /\ UNCHANGED samples
    /\ UNCHANGED <<baselines, baseline, sigma, versionVars, sampleVars>>

\* let baseline: Baseline = match &baselines[..] { .. }
SelectBaseline ==
    /\ pc = "sampled"
    /\ LET chosen == select_baseline(baselines)
       IN  IF chosen.kind = "Panic"
           THEN /\ result' = chosen
                /\ pc' = "aborted"
                /\ trace' = Append(trace, Step("select", "Panic"))
                /\ UNCHANGED baseline
           ELSE /\ baseline' = chosen.value
                /\ pc' = "selected"
                /\ trace' = Append(trace, Step("select", "Ok"))
                /\ UNCHANGED result
    /\ UNCHANGED <<baselines, samples, sigma, versionVars, sampleVars>>

\* Ok(calculate_regressions(&samples, baseline, 3.0))
Calculate ==
    /\ pc = "selected"
    /\ sigma' = 3
    /\ result' = Ok(calculate_regressions(samples, baseline, 3))
    /\ pc' = "returned"
    /\ trace' = Append(trace, Step("calculate_regressions", "Ok"))
    /\ UNCHANGED <<baselines, samples, baseline, versionVars, sampleVars>>

Next == LoadBaselines \/ TakeSamples \/ SelectBaseline \/ Calculate

Spec == Init /\ [][Next]_vars

StepNames == [i \in 1..Len(trace) |-> trace[i].step]
Failed(name) == \E i \in 1..Len(trace) : trace[i] = Step(name, "Err")
Ran(name) == \E i \in 1..Len(trace) : trace[i].step = name

\* The lexicographic order on (major, minor, patch), on the triples.
Triple(v) == <<v.major, v.minor, v.patch>>
LexGreater(a, b) ==
    \E i \in 1..3 : a[i] > b[i] /\ \A j \in 1..(i - 1) : a[j] = b[j]

\* C3: the selected baseline is the first one, in input order, whose version
\* is maximal: no input baseline has a strictly greater version, and no
\* earlier one has the same version.
C3_FirstMaximal ==
    pc \in {"selected", "returned"} /\ Ran("select") =>
        \E i \in 1..Len(baselines) :
            /\ baseline = baselines[i]
            /\ \A j \in 1..Len(baselines) :
                  ~LexGreater(Triple(baselines[j].version), Triple(baselines[i].version))
            /\ \A j \in 1..(i - 1) :
                  /\ baselines[j].version # baselines[i].version
                  /\ baselines[j] # baseline

\* Two baselines of one version with different metrics: the first of the two
\* was selected.
C3_Witness ==
    /\ pc = "selected" /\ Len(baselines) = 2
    /\ baselines[1].version = baselines[2].version
    /\ baselines[1].metrics # baselines[2].metrics
    /\ baseline = baselines[1]

\* C4: with no baseline loaded, the selection ends in an error result
\* (ConfigurationError) returned to the caller, not in an abort, and no
\* Calculation is produced.
C4_EmptyIsErrorResult ==
    Ran("select") /\ baselines = <<>> =>
        /\ pc = "returned"
        /\ result.kind = "Err" /\ result.error = "ConfigurationError"
        /\ result.calculations = <<>>

\* C10: the steps run in the order loader, sampler, selection, calculation;
\* a loader failure is returned as an error without the sampler being
\* invoked; a sampler failure is returned as an error without a baseline
\* being selected or a Calculation computed; Ok comes only after both
\* collaborators succeeded.
C10_OrderAndPropagation ==
    /\ \E n \in 0..4 :
          StepNames = SubSeq(<<"from_json_files", "take_samples", "select",
                               "calculate_regressions">>, 1, n)
    /\ Failed("from_json_files") =>
          /\ pc = "returned" /\ result.kind = "Err" /\ result.error \in LoaderErrors
          /\ ~Ran("take_samples") /\ ~Ran("select") /\ ~Ran("calculate_regressions")
          /\ result.calculations = <<>>
    /\ Failed("take_samples") =>
          /\ pc = "returned" /\ result.kind = "Err" /\ result.error \in SamplerErrors
          /\ ~Ran("select") /\ ~Ran("calculate_regressions")
          /\ baseline = NoValue /\ result.calculations = <<>>
    /\ (pc = "returned" /\ result.kind = "Ok") =>
          /\ Len(trace) = 4
          /\ trace[1] = Step("from_json_files", "Ok")
          /\ trace[2] = Step("take_samples", "Ok")
    /\ pc = "returned" => result.kind \in {"Ok", "Err"}

\* The sampler failed after the loader had returned baselines.
C10_Witness ==
    /\ pc = "returned" /\ Failed("take_samples")
    /\ Len(baselines) = 2 /\ result.kind = "Err"

====
